---------------------------- MODULE Spec2Model ----------------------------
(***************************************************************************)
(* The collection qualifiers of plugin-c-collection (collection_plugin.c): *)
(* first, last and size, evaluated over the text of a JSON document.       *)
(*                                                                         *)
(* Text is a sequence of one-character strings.  A C pointer into a text   *)
(* is a 0-based offset; the byte at offset Len(s) is the terminating NUL.  *)
(***************************************************************************)
EXTENDS Integers, Sequences, FiniteSets

VARIABLES
    random_initialized,   \* the static flag of init_random
    qualifier,            \* first argument of the latest call
    input_json,           \* second argument of the latest call
    result,               \* the document the latest call returned
    signal,               \* "none", or the signal that killed the process
    elem,                 \* the element span the latest first/last call copied
    watched,              \* observer: one earlier call and what it returned
    intervening           \* observer: a different call was made since

vars == <<random_initialized, qualifier, input_json, result, signal, elem,
          watched, intervening>>

----------------------------------------------------------------------------
(* Characters and C-string primitives *)

Q   == "\""
BS  == "\\"
NUL == "NUL"

\* A null pointer where an offset is expected, and where a text is expected.
NULLPTR == -1
NULL    == <<"NULL">>

CharAt(s, i) == IF i >= 0 /\ i < Len(s) THEN s[i + 1] ELSE NUL

IsSpace(c) == c \in {" ", "\t", "\n"}

MinOf(S) == CHOOSE x \in S : \A y \in S : x <= y

\* strstr(s, t): offset of the first occurrence of t in s, or NULLPTR.
strstr(s, t) ==
    LET hits == {i \in 0..(Len(s) - Len(t)) : SubSeq(s, i + 1, i + Len(t)) = t}
    IN  IF hits = {} THEN NULLPTR ELSE MinOf(hits)

\* strchr(s + from, c): offset of the first c at or after from, or NULLPTR.
strchr(s, from, c) ==
    LET hits == {i \in from..(Len(s) - 1) : s[i + 1] = c}
    IN  IF hits = {} THEN NULLPTR ELSE MinOf(hits)

\* snprintf(buf, size, ...): the formatted text cut to size - 1 bytes.
Snprintf(size, text) ==
    IF Len(text) <= size - 1 THEN text ELSE SubSeq(text, 1, size - 1)

SearchSize == 256
BufSize    == 4096

Digit(d) == <<"0", "1", "2", "3", "4", "5", "6", "7", "8", "9">>[d + 1]

\* The %d and %zu conversions of a non-negative number.
RECURSIVE FormatDecimal(_)
FormatDecimal(n) ==
    IF n < 10 THEN <<Digit(n)>>
    ELSE Append(FormatDecimal(n \div 10), Digit(n % 10))

RECURSIVE SkipSpace(_, _)
SkipSpace(s, i) == IF IsSpace(CharAt(s, i)) THEN SkipSpace(s, i + 1) ELSE i

----------------------------------------------------------------------------
(* init_random *)

init_random(flag) == IF flag = 0 THEN 1 ELSE flag

----------------------------------------------------------------------------
(* JSON helpers *)

find_json_value(json, key) ==
    LET search == Snprintf(SearchSize, <<Q>> \o key \o <<Q, ":">>)
        pos    == strstr(json, search)
    IN  IF pos = NULLPTR THEN NULLPTR
        ELSE LET colon == strchr(json, pos, ":")
             IN  IF colon = NULLPTR THEN NULLPTR
                 ELSE SkipSpace(json, colon + 1)

extract_json_string(json, key) ==
    LET start == find_json_value(json, key)
    IN  IF start = NULLPTR \/ CharAt(json, start) # Q THEN NULL
        ELSE LET end == strchr(json, start + 1, Q)
             IN  IF end = NULLPTR THEN NULL
                 ELSE SubSeq(json, start + 2, end)

\* The loop of extract_json_array: end stops after the bracket that brings
\* depth to 0, or at the terminating NUL.
RECURSIVE match_bracket(_, _, _)
match_bracket(json, end, depth) ==
    IF CharAt(json, end) # NUL /\ depth > 0
    THEN match_bracket(json, end + 1,
                       IF CharAt(json, end) = "[" THEN depth + 1
                       ELSE IF CharAt(json, end) = "]" THEN depth - 1
                       ELSE depth)
    ELSE end

extract_json_array(json, key) ==
    LET start == find_json_value(json, key)
    IN  IF start = NULLPTR \/ CharAt(json, start) # "[" THEN NULL
        ELSE SubSeq(json, start + 1, match_bracket(json, start + 1, 1))

\* The for loop of count_array_elements.
RECURSIVE count_scan(_, _, _, _, _)
count_scan(s, p, count, depth, in_string) ==
    LET c   == CharAt(s, p)
        ins == IF c = Q /\ (p = 0 \/ CharAt(s, p - 1) # BS)
               THEN 1 - in_string ELSE in_string
    IN  IF c = NUL THEN count
        ELSE IF ins # 0 THEN count_scan(s, p + 1, count, depth, ins)
        ELSE IF c \in {"[", "{"} THEN count_scan(s, p + 1, count, depth + 1, ins)
        ELSE IF c \in {"]", "}"} THEN count_scan(s, p + 1, count, depth - 1, ins)
        ELSE IF depth = 1 /\ (c = "," \/ (depth = 1 /\ p = 1 /\ c # "]"))
             THEN count_scan(s, p + 1, IF c = "," THEN count + 1 ELSE count,
                             depth, ins)
        ELSE count_scan(s, p + 1, count, depth, ins)

count_array_elements(array_str) ==
    IF array_str = NULL \/ CharAt(array_str, 0) # "[" THEN 0
    ELSE count_scan(array_str, 0, 0, 0, 0)
         + (IF Len(array_str) > 2 THEN 1 ELSE 0)

----------------------------------------------------------------------------
(* The first branch: forward scan for the end of the first element *)

RECURSIVE first_scan(_, _, _, _, _)
first_scan(s, start, end, depth, in_string) ==
    LET c   == CharAt(s, end)
        ins == IF c = Q /\ (end = start \/ CharAt(s, end - 1) # BS)
               THEN 1 - in_string ELSE in_string
    IN  IF c = NUL THEN end
        ELSE IF ins # 0 THEN first_scan(s, start, end + 1, depth, ins)
        ELSE IF c \in {"[", "{"} THEN first_scan(s, start, end + 1, depth + 1, ins)
        ELSE IF c \in {"]", "}"}
             THEN IF depth = 0 THEN end
                  ELSE first_scan(s, start, end + 1, depth - 1, ins)
        ELSE IF c = "," /\ depth = 0 THEN end
        ELSE first_scan(s, start, end + 1, depth, ins)

\* The span [start, end) of array_str that the first branch copies.
first_span(array_str) ==
    LET start == SkipSpace(array_str, 1)
    IN  [start |-> start, end |-> first_scan(array_str, start, start, 0, 0)]

----------------------------------------------------------------------------
(* The last branch: backward scans for the end and the start *)

RECURSIVE last_trim(_, _)
last_trim(s, end) ==
    IF end > 0 /\ (CharAt(s, end) = "]" \/ IsSpace(CharAt(s, end)))
    THEN last_trim(s, end - 1)
    ELSE end

RECURSIVE last_scan(_, _, _, _)
last_scan(s, start, depth, in_string) ==
    IF ~(start > 0) THEN start
    ELSE LET c   == CharAt(s, start)
             ins == IF c = Q /\ CharAt(s, start - 1) # BS
                    THEN 1 - in_string ELSE in_string
         IN  IF ins # 0 THEN last_scan(s, start - 1, depth, ins)
             ELSE IF c \in {"]", "}"} THEN last_scan(s, start - 1, depth + 1, ins)
             ELSE IF c \in {"[", "{"}
                  THEN IF depth = 0 THEN start
                       ELSE last_scan(s, start - 1, depth - 1, ins)
             ELSE IF c = "," /\ depth = 0 THEN start + 1
             ELSE last_scan(s, start - 1, depth, ins)

\* The span [start, end) of array_str that the last branch copies.
last_span(array_str) ==
    LET end    == last_trim(array_str, Len(array_str) - 1) + 1
        found  == last_scan(array_str, end - 1, 0, 0)
        inside == IF CharAt(array_str, found) = "[" THEN found + 1 ELSE found
    IN  [start |-> SkipSpace(array_str, inside), end |-> end]

----------------------------------------------------------------------------
(* aro_plugin_qualifier *)

NameFirst == <<"f", "i", "r", "s", "t">>
NameLast  == <<"l", "a", "s", "t">>
NameSize  == <<"s", "i", "z", "e">>
KeyType  == <<"t", "y", "p", "e">>
KeyValue == <<"v", "a", "l", "u", "e">>
TagList  == <<"L", "i", "s", "t">>
TagString == <<"S", "t", "r", "i", "n", "g">>

ErrFirst ==
    <<"{", Q, "e", "r", "r", "o", "r", Q, ":", Q, "f", "i", "r", "s", "t", " ",
      "r", "e", "q", "u", "i", "r", "e", "s", " ", "a", " ", "n", "o", "n", "-",
      "e", "m", "p", "t", "y", " ", "l", "i", "s", "t", Q, "}">>
ErrLast ==
    <<"{", Q, "e", "r", "r", "o", "r", Q, ":", Q, "l", "a", "s", "t", " ",
      "r", "e", "q", "u", "i", "r", "e", "s", " ", "a", " ", "n", "o", "n", "-",
      "e", "m", "p", "t", "y", " ", "l", "i", "s", "t", Q, "}">>
ErrSize ==
    <<"{", Q, "e", "r", "r", "o", "r", Q, ":", Q, "s", "i", "z", "e", " ",
      "r", "e", "q", "u", "i", "r", "e", "s", " ", "L", "i", "s", "t", " ",
      "o", "r", " ", "S", "t", "r", "i", "n", "g", Q, "}">>
ErrUnknownHead ==
    <<"{", Q, "e", "r", "r", "o", "r", Q, ":", Q, "U", "n", "k", "n", "o", "w",
      "n", " ", "q", "u", "a", "l", "i", "f", "i", "e", "r", ":", " ">>
ErrUnknownTail == <<Q, "}">>
ResultHead == <<"{", Q, "r", "e", "s", "u", "l", "t", Q, ":">>
ResultTail == <<"}">>

NoElem == [copied |-> FALSE, start |-> 0, end |-> 0, len |-> 0]

\* What a call that returns hands back, with the span it copied.
Returned(doc, e) == [result |-> Snprintf(BufSize, doc), ub |-> FALSE, elem |-> e]

\* The copy of [start, end) out of array_str: elem_len = end - start is a
\* size_t, so a span with end < start makes memcpy run with a length near
\* SIZE_MAX, which is undefined behaviour.
copy_element(array_str, span) ==
    LET e == [copied |-> TRUE, start |-> span.start, end |-> span.end,
              len |-> Len(array_str)]
    IN  IF span.end < span.start
        THEN [result |-> NULL, ub |-> TRUE, elem |-> e]
        ELSE Returned(ResultHead
                      \o SubSeq(array_str, span.start + 1, span.end)
                      \o ResultTail, e)

first_branch(input) ==
    LET array_str == extract_json_array(input, KeyValue)
    IN  IF array_str = NULL \/ Len(array_str) <= 2
        THEN Returned(ErrFirst, NoElem)
        ELSE copy_element(array_str, first_span(array_str))

last_branch(input) ==
    LET array_str == extract_json_array(input, KeyValue)
    IN  IF array_str = NULL \/ Len(array_str) <= 2
        THEN Returned(ErrLast, NoElem)
        ELSE copy_element(array_str, last_span(array_str))

size_branch(input) ==
    LET type == extract_json_string(input, KeyType)
    IN  IF type # NULL /\ type = TagList
        THEN Returned(ResultHead
                      \o FormatDecimal(count_array_elements(
                             extract_json_array(input, KeyValue)))
                      \o ResultTail, NoElem)
        ELSE IF type # NULL /\ type = TagString
        THEN LET str == extract_json_string(input, KeyValue)
             IN  Returned(ResultHead
                          \o FormatDecimal(IF str # NULL THEN Len(str) ELSE 0)
                          \o ResultTail, NoElem)
        ELSE Returned(ErrSize, NoElem)

dispatch(q, input) ==
    IF q = NameFirst THEN first_branch(input)
    ELSE IF q = NameLast THEN last_branch(input)
    ELSE IF q = NameSize THEN size_branch(input)
    ELSE Returned(ErrUnknownHead \o q \o ErrUnknownTail, NoElem)

\* A qualifier that reads the seeding flag: until init_random has run in an
\* earlier call, first and last answer as for an empty list.
aro_plugin_qualifier_unseeded(q, input) ==
    IF random_initialized = 0 /\ q = NameFirst THEN Returned(ErrFirst, NoElem)
    ELSE IF random_initialized = 0 /\ q = NameLast THEN Returned(ErrLast, NoElem)
    ELSE dispatch(q, input)

aro_plugin_qualifier(q, input) == dispatch(q, input)

----------------------------------------------------------------------------
(* Inputs *)

MaxLen == 5

Alphabet == {"[", "]", ",", Q, BS, " ", "1"}

RECURSIVE Texts(_)
Texts(n) ==
    IF n = 0 THEN {<<>>}
    ELSE LET shorter == Texts(n - 1)
         IN  shorter \cup {Append(s, c) : s \in shorter, c \in Alphabet}

\* The value texts of the specification's scenarios and examples.
ScenarioValues ==
    { <<"[", "1", ",", "2", ",", "3", "]">>,
      <<"[", "1", ",", "[", "2", ",", "3", "]", "]">>,
      <<"[", "1", " ", ",", "2", "]">>,
      <<"[", Q, "a", ",", "b", Q, ",", Q, "c", Q, "]">>,
      <<"[", Q, "a", "]", Q, ",", "2", "]">>,
      <<"[", Q, "a", BS, Q, "b", Q, "]">>,
      <<"[", Q, "a", BS, BS, Q, ",", "2", "]">>,
      <<Q, "h", "e", "l", "l", "o", Q>>,
      <<Q, "a", BS, Q, "b", Q>>,
      <<"[", "1", ",", "2">>,
      <<"[", " ", ",", " ", "]">> }

\* Every text of at most n characters, and the scenarios.
Values(n) == Texts(n) \cup ScenarioValues

NameBogus == <<"b", "o", "g", "u", "s">>
Qualifiers == {NameFirst, NameLast, NameSize, NameBogus}

NoTypeField     == <<>>
ListTypeField   == <<Q, "t", "y", "p", "e", Q, ":", Q, "L", "i", "s", "t", Q, ",">>
StringTypeField ==
    <<Q, "t", "y", "p", "e", Q, ":", Q, "S", "t", "r", "i", "n", "g", Q, ",">>
TypeFields == {NoTypeField, ListTypeField, StringTypeField}

ValueKey == <<Q, "v", "a", "l", "u", "e", Q, ":">>

\* A document: an optional type field, the value field, and the closing
\* brace unless the text is cut short.
Document(typeField, value, tail) ==
    <<"{">> \o typeField \o ValueKey \o value \o tail

Tails == {<<"}">>, <<>>}

\* The documents whose value is a text of at most n characters or a
\* scenario, and the documents with no value field.
Documents(n) ==
    {Document(t, v, z) : t \in TypeFields, v \in Values(n), z \in Tails}
    \cup {<<"{">> \o t \o <<"}">> : t \in TypeFields}

\* The documents of the call sequences: complete List and String documents.
SeqValues ==
    { <<"[", "1", ",", "2", ",", "3", "]">>,
      <<"[", "1", ",", "[", "2", ",", "3", "]", "]">>,
      <<"[", Q, "a", ",", "b", Q, ",", Q, "c", Q, "]">>,
      <<"[", " ", "]">>,
      <<Q, "h", "e", "l", "l", "o", Q>> }

SeqDocuments ==
    {Document(t, v, <<"}">>) : t \in {ListTypeField, StringTypeField},
                               v \in SeqValues}

----------------------------------------------------------------------------
(* The process *)

\* The signals seen to end a process whose copy ran with end < start.
Signals == {"SIGABRT", "SIGSEGV"}

NoCall == <<"-">>

NotWatching ==
    [seen |-> FALSE, qualifier |-> NoCall, input_json |-> NoCall,
     result |-> NoCall, seeded |-> 0]

Init ==
    /\ random_initialized = 0
    /\ qualifier = NoCall
    /\ input_json = NoCall
    /\ result = NoCall
    /\ signal = "none"
    /\ elem = NoElem
    /\ watched = NotWatching
    /\ intervening = FALSE

\* One call of aro_plugin_qualifier(q, input) by the host.
Call(q, input) ==
    LET r == aro_plugin_qualifier(q, input)
    IN  /\ signal = "none"
        /\ random_initialized' = init_random(random_initialized)
        /\ qualifier' = q
        /\ input_json' = input
        /\ elem' = r.elem
        /\ IF r.ub
           THEN /\ signal' \in Signals
                /\ result' = NoCall
           ELSE /\ signal' = "none"
                /\ result' = r.result

\* The first call of a process, on any document.
FirstCall ==
    /\ random_initialized = 0
    /\ signal = "none"
    /\ \E q \in Qualifiers, input \in Documents(MaxLen) :
           /\ Call(q, input)
           /\ UNCHANGED <<watched, intervening>>

Next == FirstCall

Spec == Init /\ [][Next]_vars

\* Any call of a running process.  The observer either starts watching this
\* call or keeps the one it watches, noting whether a different call came
\* after it.
AnyCall ==
    /\ signal = "none"
    /\ \E q \in Qualifiers, input \in SeqDocuments, watch \in BOOLEAN :
           /\ Call(q, input)
           /\ watched' =
                  IF watch /\ signal' = "none"
                  THEN [seen |-> TRUE, qualifier |-> q, input_json |-> input,
                        result |-> result', seeded |-> random_initialized]
                  ELSE watched
           /\ intervening' =
                  IF watch /\ signal' = "none" THEN FALSE
                  ELSE intervening
                       \/ (watched.seen
                           /\ <<q, input>> # <<watched.qualifier,
                                               watched.input_json>>)

NextSeq == AnyCall

SpecSeq == Init /\ [][NextSeq]_vars

----------------------------------------------------------------------------
(* JSON as the specification reads it: the vocabulary of the properties.   *)
(* Strings end at the first quote that no backslash escapes, a backslash   *)
(* escapes exactly the character after it, and elements are delimited by   *)
(* the commas outside strings and nested arrays.  -1 is "no parse".        *)

JsonSpace == {" ", "\t", "\n", "\r"}
JsonDigits == {"0", "1", "2", "3", "4", "5", "6", "7", "8", "9"}
JsonEscapes == {Q, BS, "/", "b", "f", "n", "r", "t"}

RECURSIVE SkipJsonSpace(_, _)
SkipJsonSpace(s, i) ==
    IF CharAt(s, i) \in JsonSpace THEN SkipJsonSpace(s, i + 1) ELSE i

\* Offset just past the closing quote of the string whose content starts at i.
RECURSIVE JsonStringEnd(_, _)
JsonStringEnd(s, i) ==
    LET c == CharAt(s, i)
    IN  IF c = NUL THEN -1
        ELSE IF c = Q THEN i + 1
        ELSE IF c = BS
             THEN IF CharAt(s, i + 1) \in JsonEscapes
                  THEN JsonStringEnd(s, i + 2) ELSE -1
        ELSE JsonStringEnd(s, i + 1)

RECURSIVE JsonDigitsEnd(_, _)
JsonDigitsEnd(s, i) ==
    IF CharAt(s, i) \in JsonDigits THEN JsonDigitsEnd(s, i + 1) ELSE i

JsonNumberEnd(s, i) ==
    LET e == JsonDigitsEnd(s, i)
    IN  IF CharAt(s, i) = "0" /\ e > i + 1 THEN -1 ELSE e

NoParse == [end |-> -1, elems |-> <<>>]

RECURSIVE JsonValueEnd(_, _)
RECURSIVE JsonElements(_, _, _)

\* The array that opens at offset i: where it ends and its element spans.
JsonArray(s, i) ==
    LET j == SkipJsonSpace(s, i + 1)
    IN  IF CharAt(s, j) = "]" THEN [end |-> j + 1, elems |-> <<>>]
        ELSE JsonElements(s, j, <<>>)

JsonElements(s, j, acc) ==
    LET e == JsonValueEnd(s, j)
    IN  IF e = -1 THEN NoParse
        ELSE LET k    == SkipJsonSpace(s, e)
                 more == Append(acc, [start |-> j, end |-> e])
             IN  IF CharAt(s, k) = "]" THEN [end |-> k + 1, elems |-> more]
                 ELSE IF CharAt(s, k) = ","
                      THEN JsonElements(s, SkipJsonSpace(s, k + 1), more)
                 ELSE NoParse

JsonValueEnd(s, i) ==
    LET c == CharAt(s, i)
    IN  IF c = Q THEN JsonStringEnd(s, i + 1)
        ELSE IF c \in JsonDigits THEN JsonNumberEnd(s, i)
        ELSE IF c = "[" THEN JsonArray(s, i).end
        ELSE -1

\* Depth of "[" over "]" outside strings never returns to 0 from offset i on.
RECURSIVE NeverBalances(_, _, _, _)
NeverBalances(s, i, depth, inString) ==
    LET c == CharAt(s, i)
    IN  IF c = NUL THEN TRUE
        ELSE IF inString
             THEN IF c = BS /\ CharAt(s, i + 1) # NUL
                  THEN NeverBalances(s, i + 2, depth, TRUE)
                  ELSE NeverBalances(s, i + 1, depth, c # Q)
        ELSE IF c = Q THEN NeverBalances(s, i + 1, depth, TRUE)
        ELSE IF c = "[" THEN NeverBalances(s, i + 1, depth + 1, FALSE)
        ELSE IF c = "]"
             THEN IF depth = 1 THEN FALSE
                  ELSE NeverBalances(s, i + 1, depth - 1, FALSE)
        ELSE NeverBalances(s, i + 1, depth, FALSE)

HasPrefix(s, t) == Len(s) >= Len(t) /\ SubSeq(s, 1, Len(t)) = t

\* The latest call's document, read as the specification reads it.
Called      == qualifier # NoCall
Returns     == Called /\ signal = "none"
IsListDoc   == HasPrefix(input_json, <<"{">> \o ListTypeField)
IsStringDoc == HasPrefix(input_json, <<"{">> \o StringTypeField)
ValueKeyAt  == strstr(input_json, ValueKey)
HasValue    == ValueKeyAt # NULLPTR
ValueAt     == SkipJsonSpace(input_json, ValueKeyAt + Len(ValueKey))
ValueIsArray == HasValue /\ CharAt(input_json, ValueAt) = "["

\* The document closes with "}" right after offset e.
ClosesAfter(e) ==
    LET k == SkipJsonSpace(input_json, e)
    IN  CharAt(input_json, k) = "}" /\ k + 1 = Len(input_json)

ArrayParse == JsonArray(input_json, ValueAt)
\* value is a well-formed array in a complete document
WellFormedArray ==
    ValueIsArray /\ ArrayParse.end # -1 /\ ClosesAfter(ArrayParse.end)
splitTopLevel == ArrayParse.elems
ElementText(e) == SubSeq(input_json, e.start + 1, e.end)

\* value is a well-formed string literal in a complete document
WellFormedString ==
    /\ HasValue
    /\ CharAt(input_json, ValueAt) = Q
    /\ JsonStringEnd(input_json, ValueAt + 1) # -1
    /\ ClosesAfter(JsonStringEnd(input_json, ValueAt + 1))
StringContentLen == JsonStringEnd(input_json, ValueAt + 1) - ValueAt - 2

ResultDoc(text) == ResultHead \o text \o ResultTail

\* An element that is a string with a comma, a bracket or a backslash in it.
IsTrickyString(e) ==
    /\ CharAt(input_json, e.start) = Q
    /\ \E i \in (e.start + 1)..(e.end - 2) :
           CharAt(input_json, i) \in {",", "[", "]", BS}

----------------------------------------------------------------------------
(* Properties *)

\* C1: for a well-formed non-empty array, last returns {"result":E} with E
\* the text of the last element of the top-level split, nested arrays kept
\* whole.
LastReturnsLastOfSplit ==
    (qualifier = NameLast /\ WellFormedArray /\ Len(splitTopLevel) > 0)
        => /\ signal = "none"
           /\ result = ResultDoc(ElementText(splitTopLevel[Len(splitTopLevel)]))

\* C2: for a well-formed non-empty array, first returns {"result":E} with E
\* the text of the first element of the top-level split, surrounding
\* whitespace trimmed and nested values and strings kept whole.
FirstReturnsFirstOfSplit ==
    (qualifier = NameFirst /\ WellFormedArray /\ Len(splitTopLevel) > 0)
        => /\ signal = "none"
           /\ result = ResultDoc(ElementText(splitTopLevel[1]))

\* C3: for a well-formed array in a List document, size returns the number
\* of top-level elements, which is 0 for every empty array, [ ] included.
SizeCountsElements ==
    (qualifier = NameSize /\ IsListDoc /\ WellFormedArray)
        => /\ signal = "none"
           /\ result = ResultDoc(FormatDecimal(Len(splitTopLevel)))

\* C4: when value is absent, not an array, or an empty array ([] and [ ]
\* alike), first and last return exactly their error document.
EmptyOrMissingGivesError ==
    LET pre == \/ ~HasValue
               \/ ~ValueIsArray
               \/ (WellFormedArray /\ Len(splitTopLevel) = 0)
    IN  /\ (qualifier = NameFirst /\ pre)
            => (signal = "none" /\ result = ErrFirst)
        /\ (qualifier = NameLast /\ pre)
            => (signal = "none" /\ result = ErrLast)

\* C5: when the brackets of the value array never balance before the input
\* ends, first and last return their error document.
UnbalancedGivesError ==
    LET pre == ValueIsArray /\ NeverBalances(input_json, ValueAt + 1, 1, FALSE)
    IN  /\ (qualifier = NameFirst /\ pre)
            => (signal = "none" /\ result = ErrFirst)
        /\ (qualifier = NameLast /\ pre)
            => (signal = "none" /\ result = ErrLast)

\* C6: for a well-formed array with a string element that holds a comma, a
\* bracket, an escaped quote or an escaped backslash, size returns the true
\* number of elements and first and last return whole elements.
StringsAreOpaque ==
    LET n   == Len(splitTopLevel)
        pre == WellFormedArray
               /\ \E k \in 1..n : IsTrickyString(splitTopLevel[k])
    IN  /\ (qualifier = NameSize /\ IsListDoc /\ pre)
            => (signal = "none" /\ result = ResultDoc(FormatDecimal(n)))
        /\ (qualifier = NameFirst /\ pre)
            => (signal = "none"
                /\ result = ResultDoc(ElementText(splitTopLevel[1])))
        /\ (qualifier = NameLast /\ pre)
            => (signal = "none"
                /\ result = ResultDoc(ElementText(splitTopLevel[n])))

\* C7: for a String document, size returns the number of bytes between the
\* opening quote of value and the next unescaped quote, backslash sequences
\* counted as written.
StringSizeIsLiteralLength ==
    (qualifier = NameSize /\ IsStringDoc /\ WellFormedString)
        => /\ signal = "none"
           /\ result = ResultDoc(FormatDecimal(StringContentLen))

\* C8: every returned document is {"result":V} with V not empty, or one of
\* the defined error documents, the one its case calls for.
ErrorDocs ==
    {ErrFirst, ErrLast, ErrSize, ErrUnknownHead \o qualifier \o ErrUnknownTail}
OneKeyWithValue ==
    Returns =>
        /\ \/ result \in ErrorDocs
           \/ /\ HasPrefix(result, ResultHead)
              /\ result[Len(result)] = "}"
              /\ Len(result) > Len(ResultHead) + 1
        /\ qualifier \notin {NameFirst, NameLast, NameSize}
            => result = ErrUnknownHead \o qualifier \o ErrUnknownTail
        /\ (qualifier = NameSize /\ ~IsListDoc /\ ~IsStringDoc)
            => result = ErrSize

\* C9: a call's output depends only on its qualifier and its document: it
\* equals what any earlier call with the same arguments returned, the first
\* call of the process (flag still 0) included, whatever calls came between.
SameArgumentsSameOutput ==
    (watched.seen /\ Returns
     /\ qualifier = watched.qualifier /\ input_json = watched.input_json)
        => result = watched.result

\* C9 witness: the first call of the process returned {"result":1}, other
\* calls followed, and the same call is now made again with the flag at 1.
RepeatedAfterOtherCalls ==
    /\ watched.seen /\ watched.seeded = 0 /\ intervening
    /\ Returns /\ random_initialized = 1
    /\ qualifier = NameFirst
    /\ qualifier = watched.qualifier /\ input_json = watched.input_json
    /\ result = ResultDoc(<<"1">>)

\* C10: whatever the document, the element span that first and last copy
\* has start <= end and lies inside the extracted array text.
CopiedSpanInsideArray ==
    elem.copied => (0 <= elem.start /\ elem.start <= elem.end
                    /\ elem.end <= elem.len)

=============================================================================
